---- MODULE Spec2Model ----
(***************************************************************************)
(* Belief revision engine: formula parser, CNF conversion, clause          *)
(* extraction, resolution and the prioritised belief base.                 *)
(*                                                                         *)
(* A formula text is a sequence of characters.  The source writes the      *)
(* connectives with the symbols of logic; here each is one ASCII           *)
(* character: "~" not, "&" and, "|" or, ">" implies, "=" iff.              *)
(***************************************************************************)
EXTENDS Integers, Sequences, FiniteSets, TLC

VARIABLES
    formulas,    \* BeliefBase.formulas: sequence of <<text, priority>>
    last,        \* the last BeliefBase call: its name, arguments, outcome
    cnfInput,    \* to_cnf: formula_string
    cnfStage,    \* to_cnf: the step reached
    cnfAst,      \* to_cnf: the tree of the current step (current_ast)
    cnfPrev,     \* to_cnf: prev_ast of the distribution loop
    loopCount,   \* to_cnf: loop_count
    resInput,    \* ResolutionChecker.resolution: clauses
    newClauses,  \* ResolutionChecker.resolution: new_clauses
    resStatus,   \* ResolutionChecker.resolution: running / returned value
    parseSource, \* Parser: what the caller wrote formula_string from
    parseInput,  \* Parser: formula_string
    parseStatus, \* Parser.parse: start / returned / ValueError
    parseAst     \* Parser.parse: the formula returned

bbVars == <<formulas, last>>
cnfVars == <<cnfInput, cnfStage, cnfAst, cnfPrev, loopCount>>
resVars == <<resInput, newClauses, resStatus>>
parseVars == <<parseSource, parseInput, parseStatus, parseAst>>
vars == <<formulas, last, cnfInput, cnfStage, cnfAst, cnfPrev, loopCount,
          resInput, newClauses, resStatus,
          parseSource, parseInput, parseStatus, parseAst>>

-----------------------------------------------------------------------------
(* Characters *)

NOT == "~"
AND == "&"
OR == "|"
IMP == ">"
IFF == "="
LP == "("
RP == ")"
SP == " "

Letters == {"P", "Q", "R", "F", "a", "l", "s", "e"}
Digits == {"1"}
Underscore == "_"

\* str.isalnum() of one character
IsAlnum(c) == c \in Letters \cup Digits

\* the characters Parser.__init__ surrounds with spaces
ParserSymbols == {IFF, IMP, OR, AND, NOT, LP, RP}

BinarySymbols == {AND, OR, IMP, IFF}

-----------------------------------------------------------------------------
(* Sequence helpers standing for Python's str operations *)

RECURSIVE SeqToSet(_)
SeqToSet(s) == IF s = <<>> THEN {} ELSE {Head(s)} \cup SeqToSet(Tail(s))

\* s[i:] with a 1-based i
Drop(s, i) == IF i > Len(s) THEN <<>> ELSE SubSeq(s, i, Len(s))

StartsWith(s, c) == Len(s) > 0 /\ s[1] = c
EndsWith(s, c) == Len(s) > 0 /\ s[Len(s)] = c

RECURSIVE LStrip(_)
LStrip(s) == IF StartsWith(s, SP) THEN LStrip(Tail(s)) ELSE s

RECURSIVE RStrip(_)
RStrip(s) == IF EndsWith(s, SP) THEN RStrip(SubSeq(s, 1, Len(s) - 1)) ELSE s

\* str.strip()
Strip(s) == RStrip(LStrip(s))

\* str.split(sep) for a one-character separator: the pieces, empty ones kept
RECURSIVE SplitFrom(_, _, _, _)
SplitFrom(s, sep, i, cur) ==
    IF i > Len(s) THEN <<cur>>
    ELSE IF s[i] = sep THEN <<cur>> \o SplitFrom(s, sep, i + 1, <<>>)
    ELSE SplitFrom(s, sep, i + 1, Append(cur, s[i]))

Split(s, sep) == SplitFrom(s, sep, 1, <<>>)

-----------------------------------------------------------------------------
(* AST nodes *)

Literal(name) == [t |-> "Literal", name |-> name]
Not(operand) == [t |-> "Not", operand |-> operand]
And(left, right) == [t |-> "And", left |-> left, right |-> right]
Or(left, right) == [t |-> "Or", left |-> left, right |-> right]
Implies(left, right) == [t |-> "Implies", left |-> left, right |-> right]
Iff(left, right) == [t |-> "Iff", left |-> left, right |-> right]

\* isinstance(x, BinaryOp)
IsBinaryOp(x) == x.t \in {"And", "Or", "Implies", "Iff"}

\* BinaryOp.symbol
SymbolOf(x) ==
    CASE x.t = "And" -> AND
      [] x.t = "Or" -> OR
      [] x.t = "Implies" -> IMP
      [] x.t = "Iff" -> IFF

\* type(formula)(left, right)
MkBinary(type, left, right) == [t |-> type, left |-> left, right |-> right]

\* Python's None where a tree is expected
None == [t |-> "None"]

\* Literal.__init__: the name test
ValidLiteralName(name) ==
    LET bare == SelectSeq(name, LAMBDA c : c # Underscore)
    IN  /\ Len(bare) > 0
        /\ \A i \in 1..Len(bare) : IsAlnum(bare[i])
        /\ name[1] \notin Digits

\* a printed form that leaves a negated binary operand without parentheses
RECURSIVE Repr_bare_negation(_)
Repr_bare_negation(f) ==
    CASE f.t = "Literal" -> f.name
      [] f.t = "Not" -> <<NOT>> \o Repr_bare_negation(f.operand)
      [] OTHER ->
            LET left_repr == IF IsBinaryOp(f.left)
                             THEN <<LP>> \o Repr_bare_negation(f.left) \o <<RP>>
                             ELSE Repr_bare_negation(f.left)
                right_repr == IF IsBinaryOp(f.right)
                              THEN <<LP>> \o Repr_bare_negation(f.right) \o <<RP>>
                              ELSE Repr_bare_negation(f.right)
            IN  left_repr \o <<SP, SymbolOf(f), SP>> \o right_repr

\* Formula.__repr__
RECURSIVE Repr(_)
Repr(f) ==
    CASE f.t = "Literal" -> f.name
      [] f.t = "Not" ->
            IF IsBinaryOp(f.operand)
            THEN <<NOT, LP>> \o Repr(f.operand) \o <<RP>>
            ELSE <<NOT>> \o Repr(f.operand)
      [] OTHER ->
            LET left_repr == IF IsBinaryOp(f.left)
                             THEN <<LP>> \o Repr(f.left) \o <<RP>>
                             ELSE Repr(f.left)
                right_repr == IF IsBinaryOp(f.right)
                              THEN <<LP>> \o Repr(f.right) \o <<RP>>
                              ELSE Repr(f.right)
            IN  left_repr \o <<SP, SymbolOf(f), SP>> \o right_repr

-----------------------------------------------------------------------------
(* Parser *)

\* Parser.__init__: the token list
RECURSIVE TokensFrom(_, _, _)
TokensFrom(s, i, cur) ==
    LET flush == IF cur = <<>> THEN <<>> ELSE <<cur>>
    IN  IF i > Len(s) THEN flush
        ELSE IF s[i] = SP THEN flush \o TokensFrom(s, i + 1, <<>>)
        ELSE IF s[i] \in ParserSymbols
             THEN flush \o <<(<<s[i]>>)>> \o TokensFrom(s, i + 1, <<>>)
        ELSE TokensFrom(s, i + 1, Append(cur, s[i]))

Tokens(formula_string) == TokensFrom(formula_string, 1, <<>>)

\* Parser._current_token; None is the empty token
CurrentToken(tokens, pos) == IF pos <= Len(tokens) THEN tokens[pos] ELSE <<>>

\* a parsing step either raises ValueError or gives a tree and the next pos
ParseFail == [ok |-> FALSE, ast |-> None, pos |-> 0]
ParseOk(ast, pos) == [ok |-> TRUE, ast |-> ast, pos |-> pos]

\* The methods _parse_iff, _parse_implies, _parse_or, _parse_and, _parse_not
\* and _parse_factor are the levels 1 to 6 of one recursive operator; each
\* of the first four parses the next level and then runs its while loop.
LevelSymbol(level) ==
    CASE level = 1 -> IFF [] level = 2 -> IMP [] level = 3 -> OR [] level = 4 -> AND

LevelType(level) ==
    CASE level = 1 -> "Iff" [] level = 2 -> "Implies"
      [] level = 3 -> "Or" [] level = 4 -> "And"

\* left = Op(left, right) of a while loop, right being a parsing step
Combine(level, left, right) ==
    IF ~right.ok THEN ParseFail
    ELSE ParseOk(MkBinary(LevelType(level), left.ast, right.ast), right.pos)

\* return Not(operand) of _parse_not
WrapNot(operand) ==
    IF ~operand.ok THEN ParseFail ELSE ParseOk(Not(operand.ast), operand.pos)

\* self._consume(")") and return expr of _parse_factor
CloseParen(tokens, expr) ==
    IF ~expr.ok THEN ParseFail
    ELSE IF CurrentToken(tokens, expr.pos) # <<RP>> THEN ParseFail
    ELSE ParseOk(expr.ast, expr.pos + 1)

\* the literal branch of _parse_factor
ParseLiteral(token, pos) ==
    IF ValidLiteralName(token) THEN ParseOk(Literal(token), pos + 1) ELSE ParseFail

RECURSIVE ParseLevel(_, _, _), ParseLoop(_, _, _)

\* a loop that parses the rest of a chain as the right operand
ParseLoop_groups_right(tokens, left, level) ==
    IF ~left.ok THEN ParseFail
    ELSE IF CurrentToken(tokens, left.pos) = <<LevelSymbol(level)>>
    THEN Combine(level, left, ParseLevel(tokens, left.pos + 1, level))
    ELSE left

\* the while loop of _parse_iff, _parse_implies, _parse_or, _parse_and
ParseLoop(tokens, left, level) ==
    IF ~left.ok THEN ParseFail
    ELSE IF CurrentToken(tokens, left.pos) = <<LevelSymbol(level)>>
    THEN ParseLoop(tokens,
                   Combine(level, left, ParseLevel(tokens, left.pos + 1, level + 1)),
                   level)
    ELSE left

ParseLevel(tokens, pos, level) ==
    IF level <= 4
    THEN ParseLoop(tokens, ParseLevel(tokens, pos, level + 1), level)
    ELSE IF level = 5
    THEN IF CurrentToken(tokens, pos) = <<NOT>>
         THEN WrapNot(ParseLevel(tokens, pos + 1, 5))
         ELSE ParseLevel(tokens, pos, 6)
    ELSE IF CurrentToken(tokens, pos) = <<LP>>
         THEN CloseParen(tokens, ParseLevel(tokens, pos + 1, 1))
         ELSE IF CurrentToken(tokens, pos) = <<>> THEN ParseFail
         ELSE IF CurrentToken(tokens, pos)
                    \in {<<AND>>, <<OR>>, <<IMP>>, <<IFF>>, <<RP>>}
         THEN ParseFail
         ELSE ParseLiteral(CurrentToken(tokens, pos), pos)

\* parse without the test for tokens left over
ParseEnd_ignores_rest(tokens, formula) ==
    IF ~formula.ok THEN ParseFail ELSE formula

\* the end of Parser.parse: every token must have been consumed
ParseEnd(tokens, formula) ==
    IF ~formula.ok THEN ParseFail
    ELSE IF formula.pos <= Len(tokens) THEN ParseFail
    ELSE formula

ParseTokens(tokens) ==
    IF tokens = <<>> THEN ParseFail ELSE ParseEnd(tokens, ParseLevel(tokens, 1, 1))

\* Parser(formula_string).parse(): ok is FALSE where it raises ValueError
Parse(formula_string) == ParseTokens(Tokens(formula_string))

-----------------------------------------------------------------------------
(* AST transformations.  A raised TypeError is the value TypeError, which  *)
(* every enclosing call passes on.                                          *)

TypeError == [t |-> "TypeError"]

Raised(x) == x.t = "TypeError"

\* a node built from the results of recursive calls
BuildNot(operand) == IF Raised(operand) THEN TypeError ELSE Not(operand)

BuildBinary(type, left, right) ==
    IF Raised(left) \/ Raised(right) THEN TypeError
    ELSE MkBinary(type, left, right)

RECURSIVE eliminate_iff_ast(_)
eliminate_iff_ast(formula) ==
    CASE formula.t = "Literal" -> formula
      [] formula.t = "Not" -> BuildNot(eliminate_iff_ast(formula.operand))
      [] formula.t \in {"And", "Or", "Implies"} ->
            BuildBinary(formula.t, eliminate_iff_ast(formula.left),
                        eliminate_iff_ast(formula.right))
      [] formula.t = "Iff" ->
            LET left_elim == eliminate_iff_ast(formula.left)
                right_elim == eliminate_iff_ast(formula.right)
            IN  IF Raised(left_elim) \/ Raised(right_elim) THEN TypeError
                ELSE eliminate_iff_ast(And(Implies(left_elim, right_elim),
                                           Implies(right_elim, left_elim)))
      [] OTHER -> TypeError

\* eliminate_imp_ast with the negation of the antecedent forgotten:
\* A -> B rewritten to A | B
RECURSIVE eliminate_imp_ast_unnegated(_)
eliminate_imp_ast_unnegated(formula) ==
    CASE formula.t = "Literal" -> formula
      [] formula.t = "Not" -> BuildNot(eliminate_imp_ast_unnegated(formula.operand))
      [] formula.t \in {"And", "Or"} ->
            BuildBinary(formula.t, eliminate_imp_ast_unnegated(formula.left),
                        eliminate_imp_ast_unnegated(formula.right))
      [] formula.t = "Implies" ->
            BuildBinary("Or", eliminate_imp_ast_unnegated(formula.left),
                        eliminate_imp_ast_unnegated(formula.right))
      [] OTHER -> TypeError

RECURSIVE eliminate_imp_ast(_)
eliminate_imp_ast(formula) ==
    CASE formula.t = "Literal" -> formula
      [] formula.t = "Not" -> BuildNot(eliminate_imp_ast(formula.operand))
      [] formula.t \in {"And", "Or"} ->
            BuildBinary(formula.t, eliminate_imp_ast(formula.left),
                        eliminate_imp_ast(formula.right))
      [] formula.t = "Implies" ->
            LET left_elim == eliminate_imp_ast(formula.left)
                right_elim == eliminate_imp_ast(formula.right)
            IN  IF Raised(left_elim) \/ Raised(right_elim) THEN TypeError
                ELSE eliminate_imp_ast(Or(Not(left_elim), right_elim))
      [] OTHER -> TypeError

\* move_negation_inwards_ast with De Morgan's laws applied once, the
\* negations they produce left where they are
RECURSIVE move_negation_inwards_ast_shallow(_)
move_negation_inwards_ast_shallow(formula) ==
    CASE formula.t = "Literal" -> formula
      [] formula.t \in {"And", "Or"} ->
            BuildBinary(formula.t, move_negation_inwards_ast_shallow(formula.left),
                        move_negation_inwards_ast_shallow(formula.right))
      [] formula.t = "Not" /\ formula.operand.t = "Literal" -> formula
      [] formula.t = "Not" /\ formula.operand.t = "Not" ->
            move_negation_inwards_ast_shallow(formula.operand.operand)
      [] formula.t = "Not" /\ formula.operand.t = "And" ->
            Or(Not(formula.operand.left), Not(formula.operand.right))
      [] formula.t = "Not" /\ formula.operand.t = "Or" ->
            And(Not(formula.operand.left), Not(formula.operand.right))
      [] OTHER -> TypeError

RECURSIVE move_negation_inwards_ast(_)
move_negation_inwards_ast(formula) ==
    CASE formula.t = "Literal" -> formula
      [] formula.t \in {"And", "Or"} ->
            BuildBinary(formula.t, move_negation_inwards_ast(formula.left),
                        move_negation_inwards_ast(formula.right))
      [] formula.t = "Not" ->
            LET operand == formula.operand
            IN  CASE operand.t = "Literal" -> formula
                  [] operand.t = "Not" ->
                        move_negation_inwards_ast(operand.operand)
                  [] operand.t = "And" ->
                        move_negation_inwards_ast(
                            Or(Not(operand.left), Not(operand.right)))
                  [] operand.t = "Or" ->
                        move_negation_inwards_ast(
                            And(Not(operand.left), Not(operand.right)))
                  [] OTHER -> TypeError
      [] OTHER -> TypeError

\* a distribution that does not distribute again over what it has built
RECURSIVE distribute_or_over_and_ast_once(_)
distribute_or_over_and_ast_once(formula) ==
    CASE formula.t \in {"Literal", "Not"} -> formula
      [] formula.t = "And" ->
            BuildBinary("And", distribute_or_over_and_ast_once(formula.left),
                        distribute_or_over_and_ast_once(formula.right))
      [] formula.t = "Or" ->
            LET left == distribute_or_over_and_ast_once(formula.left)
                right == distribute_or_over_and_ast_once(formula.right)
            IN  IF Raised(left) \/ Raised(right) THEN TypeError
                ELSE IF right.t = "And"
                THEN And(Or(left, right.left), Or(left, right.right))
                ELSE IF left.t = "And"
                THEN And(Or(left.left, right), Or(left.right, right))
                ELSE Or(left, right)
      [] OTHER -> TypeError

RECURSIVE distribute_or_over_and_ast(_)
distribute_or_over_and_ast(formula) ==
    CASE formula.t \in {"Literal", "Not"} -> formula
      [] formula.t = "And" ->
            BuildBinary("And", distribute_or_over_and_ast(formula.left),
                        distribute_or_over_and_ast(formula.right))
      [] formula.t = "Or" ->
            LET left == distribute_or_over_and_ast(formula.left)
                right == distribute_or_over_and_ast(formula.right)
            IN  IF Raised(left) \/ Raised(right) THEN TypeError
                ELSE IF right.t = "And"
                THEN distribute_or_over_and_ast(
                         And(Or(left, right.left), Or(left, right.right)))
                ELSE IF left.t = "And"
                THEN distribute_or_over_and_ast(
                         And(Or(left.left, right), Or(left.right, right)))
                ELSE Or(left, right)
      [] OTHER -> TypeError

-----------------------------------------------------------------------------
(* to_cnf(formula_string, return_ast=True) *)

MAX_LOOPS == 100

\* the result of to_cnf: err names the exception raised, "" when none is
CnfOk(ast) == [err |-> "", ast |-> ast]
CnfRaise(err) == [err |-> err, ast |-> None]

\* the while loop of to_cnf from (prev_ast, current_ast, loop_count)
RECURSIVE DistributeLoop(_, _, _)
DistributeLoop(prev_ast, current_ast, loop_count) ==
    IF Raised(current_ast) THEN CnfRaise("TypeError")
    ELSE IF prev_ast = current_ast THEN CnfOk(current_ast)
    ELSE IF loop_count > MAX_LOOPS THEN CnfRaise("RecursionError")
    ELSE DistributeLoop(current_ast, distribute_or_over_and_ast(current_ast),
                        loop_count + 1)

\* steps 2 to 5 of to_cnf on the parser's outcome; a TypeError raised by one
\* step passes through the later ones
CnfOfParsed(parsed) ==
    IF ~parsed.ok THEN CnfRaise("ValueError")
    ELSE DistributeLoop(None,
                        move_negation_inwards_ast(
                            eliminate_imp_ast(eliminate_iff_ast(parsed.ast))),
                        0)

to_cnf(formula_string) == CnfOfParsed(Parse(formula_string))

-----------------------------------------------------------------------------
(* Clause extraction from a CNF tree.  A clause is a set of literal        *)
(* strings; literal strings are character sequences.                       *)

\* collect() of extract_literals_from_clause: FALSE where it raises TypeError
RECURSIVE ClauseWellFormed(_)
ClauseWellFormed(node) ==
    CASE node.t = "Or" -> ClauseWellFormed(node.left) /\ ClauseWellFormed(node.right)
      [] node.t = "Literal" -> TRUE
      [] node.t = "Not" -> node.operand.t = "Literal"
      [] OTHER -> FALSE

RECURSIVE extract_literals_from_clause(_)
extract_literals_from_clause(clause_node) ==
    CASE clause_node.t = "Or" ->
            extract_literals_from_clause(clause_node.left)
                \cup extract_literals_from_clause(clause_node.right)
      [] clause_node.t = "Literal" -> {Repr(clause_node)}
      [] clause_node.t = "Not" /\ clause_node.operand.t = "Literal" ->
            {Repr(clause_node)}
      [] OTHER -> {}

\* find_conjuncts: the clause nodes, left to right
RECURSIVE find_conjuncts(_)
find_conjuncts(node) ==
    IF node.t = "And"
    THEN find_conjuncts(node.left) \o find_conjuncts(node.right)
    ELSE <<node>>

\* cnf_ast_to_clauses on the clause nodes: err is "TypeError" where it raises
ClausesOfNodes(nodes) ==
    IF \E i \in 1..Len(nodes) :
          \/ nodes[i].t \notin {"Or", "Literal", "Not"}
          \/ ~ClauseWellFormed(nodes[i])
    THEN [err |-> "TypeError", clauses |-> <<>>]
    ELSE [err |-> "",
          clauses |-> [i \in 1..Len(nodes) |->
                          extract_literals_from_clause(nodes[i])]]

cnf_ast_to_clauses(cnf_ast) == ClausesOfNodes(find_conjuncts(cnf_ast))

-----------------------------------------------------------------------------
(* cnf_converter.py: the string functions BeliefBase.entails uses for the  *)
(* query                                                                   *)

negate_formula(formula) ==
    IF StartsWith(formula, NOT) THEN Tail(formula)
    ELSE IF StartsWith(formula, LP) /\ EndsWith(formula, RP)
    THEN <<NOT, LP>> \o SubSeq(formula, 2, Len(formula) - 1) \o <<RP>>
    ELSE <<NOT>> \o formula

cnf_to_clauses(formula) ==
    LET clauses == Split(formula, AND)
    IN  [i \in 1..Len(clauses) |->
            LET literals == Split(Strip(clauses[i]), OR)
            IN  {Strip(literals[j]) : j \in 1..Len(literals)}]

-----------------------------------------------------------------------------
(* ResolutionChecker *)

\* the complementary literal computed in resolve
Complementary(literal) ==
    IF StartsWith(literal, NOT) THEN Tail(literal) ELSE <<NOT>> \o literal

\* is_tautology of resolve
IsTautology(resolvent) ==
    \E lit \in resolvent :
        \/ StartsWith(lit, NOT) /\ Tail(lit) \in resolvent
        \/ (<<NOT>> \o lit) \in resolvent

\* resolve without its is_tautology test
resolve_keeps_tautologies(clause1, clause2) ==
    {(clause1 \cup clause2) \ {literal, Complementary(literal)} :
        literal \in {l \in clause1 : Complementary(l) \in clause2}}

\* ResolutionChecker.resolve: the resolvents (the list's order is not used)
resolve(clause1, clause2) ==
    LET candidates ==
            {(clause1 \cup clause2) \ {literal, Complementary(literal)} :
                literal \in {l \in clause1 : Complementary(l) \in clause2}}
    IN  {resolvent \in candidates : ~IsTautology(resolvent)}

\* list(new_clauses): one enumeration of the set.  resolve(A, B) and
\* resolve(B, A) agree unless a literal starts with two negation signs,
\* which no clause of the input sets below does, so the order is immaterial.
RECURSIVE ListOf(_)
ListOf(S) ==
    IF S = {} THEN <<>>
    ELSE LET x == CHOOSE y \in S : TRUE IN <<x>> \o ListOf(S \ {x})

\* one pass of the pair loops of resolution: every resolvent produced
RoundResolvents(clause_list) ==
    LET n == Len(clause_list)
    IN  UNION {resolve(clause_list[pair[1]], clause_list[pair[2]]) :
                  pair \in {ij \in (1..n) \X (1..n) : ij[1] < ij[2]}}

\* the while loop of resolution from a known set new_clauses
RECURSIVE ResolutionLoop(_)
ResolutionLoop(new_clauses) ==
    LET new_resolvents_set == RoundResolvents(ListOf(new_clauses))
    IN  IF {} \in new_resolvents_set THEN TRUE
        ELSE IF new_resolvents_set \subseteq new_clauses THEN FALSE
        ELSE ResolutionLoop(new_clauses \cup new_resolvents_set)

\* ResolutionChecker.resolution(clauses): TRUE = unsatisfiable
resolution(clauses) == ResolutionLoop(SeqToSet(clauses))

-----------------------------------------------------------------------------
(* The formula texts the callers of the belief base pass in *)

tP == <<"P">>
tQ == <<"Q">>
tNotQ == <<NOT, "Q">>
tNotPOrQ == <<NOT, "P", SP, OR, SP, "Q">>
tPOrNotP == <<"P", SP, OR, SP, NOT, "P">>
tPAnd == <<"P", SP, AND>>
tNotNotQ == <<NOT, NOT, "Q">>
tParenQ == <<LP, "Q", RP>>
tPAndQ == <<"P", SP, AND, SP, "Q">>
tFalse == <<"F", "a", "l", "s", "e">>

\* the texts callers store; tPAnd does not parse
StoredTexts == {tP, tNotQ, tNotPOrQ, tPOrNotP, tPAnd}

\* the texts callers query or contract.  None of them, negated by
\* negate_formula, yields a literal that starts with two negation signs.
QueryTexts == {tP, tQ, tNotNotQ, tParenQ, tPAndQ, tPOrNotP, tFalse}

\* the texts callers ask entails about: a negated literal besides
EntailedTexts == QueryTexts \cup {tNotQ}

-----------------------------------------------------------------------------
(* BeliefBase.  An entry is <<formula, priority>>; a call's outcome is the *)
(* returned value as a string, or the name of the exception raised.        *)

\* BeliefBase.contains
contains(fs, formula) == \E i \in 1..Len(fs) : fs[i][1] = formula

\* add_formula without its test of contains
add_formula_unchecked(fs, formula, priority) == Append(fs, <<formula, priority>>)

\* BeliefBase.add_formula
add_formula(fs, formula, priority) ==
    IF ~contains(fs, formula) THEN Append(fs, <<formula, priority>>) ELSE fs

\* BeliefBase.remove_formula
remove_formula(fs, formula) == SelectSeq(fs, LAMBDA e : e[1] # formula)

\* BeliefBase.list_formulas
list_formulas(fs) == [i \in 1..Len(fs) |-> fs[i][1]]

\* cnf_ast_to_clauses(cnf_formula_ast) on to_cnf's outcome
ClausesOfCnf(cnf) ==
    IF cnf.err # "" THEN [err |-> cnf.err, clauses |-> <<>>]
    ELSE cnf_ast_to_clauses(cnf.ast)

\* to_cnf followed by cnf_ast_to_clauses for one stored formula
FormulaClauses(formula) == ClausesOfCnf(to_cnf(formula))

\* FormulaClauses tabulated over the stored texts: the code recomputes it
\* on every call, with the same result
StoredClauses == [t \in StoredTexts |-> FormulaClauses(t)]

\* the clauses of one entry's formula
ClausesFor(formula) ==
    IF formula \in StoredTexts THEN StoredClauses[formula]
    ELSE FormulaClauses(formula)

\* cnf_clauses.extend(cnf_clauses_ast), unless an exception ended the loop
Extend(first, rest) ==
    IF first.err # "" THEN first
    ELSE IF rest.err # "" THEN rest
    ELSE [err |-> "", clauses |-> first.clauses \o rest.clauses]

\* the for loop of entails: cnf_clauses, or the exception raised
RECURSIVE BaseClauses(_)
BaseClauses(fs) ==
    IF fs = <<>> THEN [err |-> "", clauses |-> <<>>]
    ELSE Extend(ClausesFor(fs[1][1]), BaseClauses(Tail(fs)))

\* entails that hands resolution the clauses of the stored formulas only
EntailsFrom_base_only(cnf_clauses, negated_cnf_entailed_clauses) ==
    IF cnf_clauses.err # "" THEN cnf_clauses.err
    ELSE IF resolution(cnf_clauses.clauses) THEN "True" ELSE "False"

\* the end of entails: the clauses joined and handed to resolution
EntailsFrom(cnf_clauses, negated_cnf_entailed_clauses) ==
    IF cnf_clauses.err # "" THEN cnf_clauses.err
    ELSE IF resolution(cnf_clauses.clauses \o negated_cnf_entailed_clauses)
    THEN "True" ELSE "False"

\* BeliefBase.entails: "True", "False" or the exception raised
entails(fs, entailed_formula) ==
    EntailsFrom(BaseClauses(fs), cnf_to_clauses(negate_formula(entailed_formula)))

\* every sequence of seqs with x put in front
Prefixed(x, seqs) == [k \in 1..Len(seqs) |-> <<x>> \o seqs[k]]

\* the combinations in the reverse of the order of itertools
RECURSIVE Combinations_reversed(_, _, _)
Combinations_reversed(lo, n, size) ==
    IF size = 0 THEN <<(<<>>)>>
    ELSE IF n - lo + 1 < size THEN <<>>
    ELSE Combinations_reversed(lo + 1, n, size)
             \o Prefixed(lo, Combinations_reversed(lo + 1, n, size - 1))

\* itertools.combinations(range(lo, n + 1), size), in its order
RECURSIVE Combinations(_, _, _)
Combinations(lo, n, size) ==
    IF size = 0 THEN <<(<<>>)>>
    ELSE IF n - lo + 1 < size THEN <<>>
    ELSE Prefixed(lo, Combinations(lo + 1, n, size - 1))
             \o Combinations(lo + 1, n, size)

\* the entries at the given positions of fs
Pick(fs, positions) == [k \in 1..Len(positions) |-> fs[positions[k]]]

\* temp_bb after the add_formula calls on a fresh BeliefBase
RECURSIVE AddAll(_, _)
AddAll(temp, subset) ==
    IF subset = <<>> THEN temp
    ELSE AddAll(add_formula(temp, subset[1][1], subset[1][2]), Tail(subset))

\* membership of an entry in a subset: (f, p) in subset
InSubset(entry, subset) == \E k \in 1..Len(subset) : subset[k] = entry

\* the is_maximal loop of contraction for a subset that does not entail,
\* from position i of self.formulas with temp_bb as it stands; added is
\* temp_bb after add_formula for an entry outside the subset
RECURSIVE MaximalFrom(_, _, _, _, _), MaximalStep(_, _, _, _, _)
MaximalStep(fs, i, subset, added, formula) ==
    IF entails(added, formula) = "False" THEN FALSE
    ELSE MaximalFrom(fs, i + 1, subset, remove_formula(added, fs[i][1]), formula)

MaximalFrom(fs, i, subset, temp_bb, formula) ==
    IF i > Len(fs) THEN TRUE
    ELSE IF InSubset(fs[i], subset)
    THEN MaximalFrom(fs, i + 1, subset, temp_bb, formula)
    ELSE MaximalStep(fs, i, subset, add_formula(temp_bb, fs[i][1], fs[i][2]),
                     formula)

\* a test that takes the subsets that entail the formula
Accepts_entailing(fs, subset, temp_bb, formula) ==
    /\ entails(temp_bb, formula) = "True"
    /\ MaximalFrom(fs, 1, subset, temp_bb, formula)

\* the test of one subset in contraction: temp_bb does not entail the
\* formula and is maximal
Accepts(fs, subset, temp_bb, formula) ==
    /\ entails(temp_bb, formula) = "False"
    /\ MaximalFrom(fs, 1, subset, temp_bb, formula)

\* the inner for loop of contraction over the subsets of one size:
\* maximal_subsets after it
RECURSIVE ScanSubsets(_, _, _)
ScanSubsets(fs, combos, formula) ==
    IF combos = <<>> THEN <<>>
    ELSE IF Accepts(fs, Pick(fs, combos[1]), AddAll(<<>>, Pick(fs, combos[1])),
                    formula)
    THEN <<Pick(fs, combos[1])>>
    ELSE ScanSubsets(fs, Tail(combos), formula)

\* the outer for loop of contraction, from the given size downwards
RECURSIVE ScanSizes(_, _, _), ScanNext(_, _, _, _)
ScanNext(fs, size, formula, maximal_subsets) ==
    IF maximal_subsets # <<>> THEN maximal_subsets
    ELSE ScanSizes(fs, size - 1, formula)

ScanSizes(fs, size, formula) ==
    IF size < 1 THEN <<>>
    ELSE ScanNext(fs, size, formula,
                  ScanSubsets(fs, Combinations(1, Len(fs), size), formula))

\* sum(p for _, p in s)
RECURSIVE PrioritySum(_)
PrioritySum(s) == IF s = <<>> THEN 0 ELSE s[1][2] + PrioritySum(Tail(s))

\* the key (len(s), sum of priorities) compared as Python compares tuples
KeyLess(s1, s2) ==
    \/ Len(s1) < Len(s2)
    \/ Len(s1) = Len(s2) /\ PrioritySum(s1) < PrioritySum(s2)

\* max(maximal_subsets, key=...): the first entry with the greatest key
BestSubset(maximal_subsets) ==
    LET best == CHOOSE k \in 1..Len(maximal_subsets) :
                    /\ \A m \in 1..Len(maximal_subsets) :
                          ~KeyLess(maximal_subsets[k], maximal_subsets[m])
                    /\ \A m \in 1..(k - 1) :
                          KeyLess(maximal_subsets[m], maximal_subsets[k])
    IN  maximal_subsets[best]

\* the end of contraction: the selection among maximal_subsets
Select(fs, maximal_subsets) ==
    IF maximal_subsets = <<>> THEN [ret |-> "False", formulas |-> fs]
    ELSE [ret |-> "True", formulas |-> BestSubset(maximal_subsets)]

\* contraction that goes on to revise: the negated formula is stored after
\* the selected subset
Revised(result, formula) ==
    IF result.ret # "True" THEN result
    ELSE [ret |-> "True",
          formulas |-> add_formula(result.formulas, negate_formula(formula), 1)]

ContractionFrom_revises(fs, formula, first) ==
    IF first \notin {"True", "False"} THEN [ret |-> first, formulas |-> fs]
    ELSE IF first = "False" THEN [ret |-> "False", formulas |-> fs]
    ELSE Revised(Select(fs, ScanSizes(fs, Len(fs), formula)), formula)

\* contraction whose early return is missing its guard on the update: with
\* no subset selected, self.formulas = list(best_subset) empties the base
ContractionFrom_falls_through(fs, formula, first) ==
    IF first \notin {"True", "False"} THEN [ret |-> first, formulas |-> fs]
    ELSE IF first = "False" THEN [ret |-> "False", formulas |-> <<>>]
    ELSE Select(fs, ScanSizes(fs, Len(fs), formula))

\* contraction that stores the negated formula beside the entries that
\* entail the formula, with no subset selected
ContractionFrom_expands(fs, formula, first) ==
    IF first \notin {"True", "False"} THEN [ret |-> first, formulas |-> fs]
    ELSE IF first = "False" THEN [ret |-> "False", formulas |-> fs]
    ELSE [ret |-> "True",
          formulas |-> add_formula(fs, negate_formula(formula), 1)]

\* contraction without its early return for a formula that is not entailed
ContractionFrom_unguarded(fs, formula, first) ==
    IF first \notin {"True", "False"} THEN [ret |-> first, formulas |-> fs]
    ELSE Select(fs, ScanSizes(fs, Len(fs), formula))

\* contraction that tries the subsets on self.formulas itself: an exception
\* leaves the entries of the subset under test
ContractionFrom_in_place(fs, formula, first) ==
    IF first \notin {"True", "False"}
    THEN [ret |-> first, formulas |-> SubSeq(fs, 1, Len(fs) - 1)]
    ELSE IF first = "False" THEN [ret |-> "False", formulas |-> fs]
    ELSE Select(fs, ScanSizes(fs, Len(fs), formula))

\* contraction after its first call of entails, whose outcome is first
ContractionFrom(fs, formula, first) ==
    IF first \notin {"True", "False"} THEN [ret |-> first, formulas |-> fs]
    ELSE IF first = "False" THEN [ret |-> "False", formulas |-> fs]
    ELSE Select(fs, ScanSizes(fs, Len(fs), formula))

\* BeliefBase.contraction: the outcome and self.formulas after the call
contraction(fs, formula) == ContractionFrom(fs, formula, entails(fs, formula))

\* expansion without its test of contains
expansion_unchecked(fs, formula, priority) ==
    [ret |-> "True", formulas |-> Append(fs, <<formula, priority>>)]

\* BeliefBase.expansion: the outcome and self.formulas after the call
expansion(fs, formula, priority) ==
    IF contains(fs, formula) THEN [ret |-> "False", formulas |-> fs]
    ELSE [ret |-> "True", formulas |-> Append(fs, <<formula, priority>>)]

-----------------------------------------------------------------------------
(* Truth-table semantics, the yardstick of the correctness properties *)

RECURSIVE AtomsOf(_)
AtomsOf(f) ==
    CASE f.t = "Literal" -> {f.name}
      [] f.t = "Not" -> AtomsOf(f.operand)
      [] OTHER -> AtomsOf(f.left) \cup AtomsOf(f.right)

\* the truth value of tree f when exactly the atoms in v are true
RECURSIVE Eval(_, _)
Eval(f, v) ==
    CASE f.t = "Literal" -> f.name \in v
      [] f.t = "Not" -> ~Eval(f.operand, v)
      [] f.t = "And" -> Eval(f.left, v) /\ Eval(f.right, v)
      [] f.t = "Or" -> Eval(f.left, v) \/ Eval(f.right, v)
      [] f.t = "Implies" -> Eval(f.left, v) => Eval(f.right, v)
      [] f.t = "Iff" -> Eval(f.left, v) <=> Eval(f.right, v)

Parses(text) == Parse(text).ok

TextAtoms(text) == AtomsOf(Parse(text).ast)

TextTrue(text, v) == Eval(Parse(text).ast, v)

AllParse(fs) == \A i \in 1..Len(fs) : Parses(fs[i][1])

BaseAtoms(fs) == UNION {TextAtoms(fs[i][1]) : i \in 1..Len(fs)}

\* every truth assignment satisfying all stored formulas satisfies the query
SemEntails(fs, query) ==
    \A v \in SUBSET (BaseAtoms(fs) \cup TextAtoms(query)) :
        (\A i \in 1..Len(fs) : TextTrue(fs[i][1], v)) => TextTrue(query, v)

IsTautologyText(text) == \A v \in SUBSET TextAtoms(text) : TextTrue(text, v)

Equivalent(phi, psi) ==
    \A v \in SUBSET (TextAtoms(phi) \cup TextAtoms(psi)) :
        TextTrue(phi, v) <=> TextTrue(psi, v)

TextSet(fs) == {fs[i][1] : i \in 1..Len(fs)}

-----------------------------------------------------------------------------
(* The belief base as a state machine: one action per public method *)

MaxFormulas == 3

Priorities == {1, 2}

\* the record of a call.  expansion, entails and contraction record their
\* arguments, the entries before the call and the outcome; the other
\* methods return nothing and record their name only.
Call(op, formula, priority, before, ret) ==
    [op |-> op, formula |-> formula, priority |-> priority,
     before |-> before, ret |-> ret]

cnfIdle ==
    /\ cnfInput = <<>>
    /\ cnfStage = "idle"
    /\ cnfAst = None
    /\ cnfPrev = None
    /\ loopCount = 0

resIdle ==
    /\ resInput = {}
    /\ newClauses = {}
    /\ resStatus = "idle"

parseIdle ==
    /\ parseSource = [kind |-> "none"]
    /\ parseInput = <<>>
    /\ parseStatus = "idle"
    /\ parseAst = None

bbIdle ==
    /\ formulas = <<>>
    /\ last = Call("__init__", <<>>, 0, <<>>, "None")

Init == bbIdle /\ cnfIdle /\ resIdle /\ parseIdle

\* the state after a call that returned result
Returned(op, formula, priority, result) ==
    /\ formulas' = result.formulas
    /\ last' = Call(op, formula, priority, formulas, result.ret)

AddFormula(formula, priority) ==
    /\ Len(formulas) < MaxFormulas
    /\ formulas' = add_formula(formulas, formula, priority)
    /\ last' = Call("add_formula", <<>>, 0, <<>>, "None")
    /\ UNCHANGED <<cnfVars, resVars, parseVars>>

RemoveFormula(formula) ==
    /\ formulas' = remove_formula(formulas, formula)
    /\ last' = Call("remove_formula", <<>>, 0, <<>>, "None")
    /\ UNCHANGED <<cnfVars, resVars, parseVars>>

Empty ==
    /\ formulas' = <<>>
    /\ last' = Call("empty", <<>>, 0, <<>>, "None")
    /\ UNCHANGED <<cnfVars, resVars, parseVars>>

Expansion(formula, priority) ==
    /\ Len(formulas) < MaxFormulas
    /\ Returned("expansion", formula, priority,
                expansion(formulas, formula, priority))
    /\ UNCHANGED <<cnfVars, resVars, parseVars>>

\* entails that extends self.formulas, not cnf_clauses, with the negated query
EntailsQuery_stores_negation(query) ==
    /\ formulas' = Append(formulas, <<negate_formula(query), 1>>)
    /\ last' = Call("entails", query, 0, formulas, entails(formulas, query))
    /\ UNCHANGED <<cnfVars, resVars, parseVars>>

EntailsQuery(query) ==
    /\ formulas' = formulas
    /\ last' = Call("entails", query, 0, formulas, entails(formulas, query))
    /\ UNCHANGED <<cnfVars, resVars, parseVars>>

Contraction(formula) ==
    /\ Returned("contraction", formula, 0, contraction(formulas, formula))
    /\ UNCHANGED <<cnfVars, resVars, parseVars>>

Next ==
    \/ \E f \in StoredTexts, p \in Priorities : AddFormula(f, p)
    \/ \E f \in StoredTexts : RemoveFormula(f)
    \/ Empty
    \/ \E f \in StoredTexts, p \in Priorities : Expansion(f, p)
    \/ \E q \in EntailedTexts : EntailsQuery(q)
    \/ \E q \in QueryTexts : Contraction(q)

Spec == Init /\ [][Next]_vars

-----------------------------------------------------------------------------
(* to_cnf as a state machine: one action per step of the function, the     *)
(* distribution loop one iteration at a time                               *)

MaxOps == 2

CnfAtoms == {<<"P">>, <<"Q">>}

BinaryTypes == {"And", "Or", "Implies", "Iff"}

\* the trees with exactly Len(levels) connectives, levels[k] being the set
\* of the trees with k - 1 connectives
NextLevel(levels) ==
    {Not(f) : f \in levels[Len(levels)]}
        \cup UNION {{MkBinary(type, l, r) :
                        type \in BinaryTypes,
                        l \in levels[i], r \in levels[Len(levels) + 1 - i]} :
                       i \in 1..Len(levels)}

Grow(levels) == Append(levels, NextLevel(levels))

\* <<the trees with 0 connectives, ..., the trees with n connectives>>
RECURSIVE Levels(_)
Levels(n) ==
    IF n = 0 THEN <<{Literal(a) : a \in CnfAtoms}>> ELSE Grow(Levels(n - 1))

\* the trees with fewer than MaxOps connectives, by number of connectives
SmallerFormulas == Levels(MaxOps - 1)

\* deeper trees: distribution on both sides and below a disjunction,
\* negated and nested equivalences and implications
DeepFormulas ==
    {Or(And(Literal(<<"P">>), Literal(<<"Q">>)),
        And(Literal(<<"R">>), Literal(<<"P">>))),
     Or(Or(And(Literal(<<"P">>), Literal(<<"Q">>)), Literal(<<"R">>)),
        And(Literal(<<"Q">>), Not(Literal(<<"R">>)))),
     Not(Iff(Literal(<<"P">>), Implies(Literal(<<"Q">>), Literal(<<"R">>)))),
     Not(Or(Not(Not(Literal(<<"P">>))),
            Not(And(Literal(<<"Q">>), Literal(<<"R">>))))),
     Iff(Iff(Literal(<<"P">>), Literal(<<"Q">>)), Literal(<<"R">>)),
     Implies(Or(Literal(<<"P">>), And(Literal(<<"Q">>), Literal(<<"R">>))),
             And(Literal(<<"Q">>), Not(Literal(<<"P">>))))}

\* to_cnf is called with text
CnfStart(text) ==
    /\ cnfInput = text
    /\ cnfStage = "start"
    /\ cnfAst = None
    /\ cnfPrev = None
    /\ loopCount = 0
    /\ bbIdle
    /\ resIdle
    /\ parseIdle

\* the strings handed to to_cnf: the callers' texts, and every tree of at
\* most MaxOps connectives over CnfAtoms and the deeper trees, printed
CnfInit ==
    \/ \E text \in StoredTexts \cup QueryTexts : CnfStart(text)
    \/ \E f \in DeepFormulas : CnfStart(Repr(f))
    \/ \E f \in SmallerFormulas[1] : CnfStart(Repr(f))
    \/ \E k \in 1..MaxOps : \E f \in SmallerFormulas[k] : CnfStart(Repr(Not(f)))
    \/ \E k \in 1..MaxOps, i \in 1..MaxOps :
          /\ i <= k
          /\ \E type \in BinaryTypes, l \in SmallerFormulas[i],
                r \in SmallerFormulas[k + 1 - i] :
                CnfStart(Repr(MkBinary(type, l, r)))

\* the state after a step that produced tree, or raised TypeError
CnfStep(stage, tree) ==
    /\ cnfStage' = (IF Raised(tree) THEN "TypeError" ELSE stage)
    /\ cnfAst' = (IF Raised(tree) THEN None ELSE tree)

\* step 1: parser.parse()
CnfParse ==
    /\ cnfStage = "start"
    /\ cnfStage' = (IF Parses(cnfInput) THEN "parsed" ELSE "ValueError")
    /\ cnfAst' = Parse(cnfInput).ast
    /\ UNCHANGED <<cnfInput, cnfPrev, loopCount, bbVars, resVars, parseVars>>

\* step 2: eliminate_iff_ast
CnfEliminateIff ==
    /\ cnfStage = "parsed"
    /\ CnfStep("no_iff", eliminate_iff_ast(cnfAst))
    /\ UNCHANGED <<cnfInput, cnfPrev, loopCount, bbVars, resVars, parseVars>>

\* step 3: eliminate_imp_ast
CnfEliminateImp ==
    /\ cnfStage = "no_iff"
    /\ CnfStep("no_imp", eliminate_imp_ast(cnfAst))
    /\ UNCHANGED <<cnfInput, cnfPrev, loopCount, bbVars, resVars, parseVars>>

\* step 4: move_negation_inwards_ast, then prev_ast = None, loop_count = 0
CnfMoveNegation ==
    /\ cnfStage = "no_imp"
    /\ CnfStep("loop", move_negation_inwards_ast(cnfAst))
    /\ cnfPrev' = None
    /\ loopCount' = 0
    /\ UNCHANGED <<cnfInput, bbVars, resVars, parseVars>>

\* step 5: one test of the while condition and, if it holds, one iteration
CnfDistribute ==
    /\ cnfStage = "loop"
    /\ IF cnfPrev = cnfAst
       THEN /\ cnfStage' = "done"
            /\ UNCHANGED <<cnfAst, cnfPrev, loopCount>>
       ELSE IF loopCount > MAX_LOOPS
       THEN /\ cnfStage' = "RecursionError"
            /\ UNCHANGED <<cnfAst, cnfPrev, loopCount>>
       ELSE /\ CnfStep("loop", distribute_or_over_and_ast(cnfAst))
            /\ cnfPrev' = cnfAst
            /\ loopCount' = loopCount + 1
    /\ UNCHANGED <<cnfInput, bbVars, resVars, parseVars>>

CnfNext ==
    \/ CnfParse
    \/ CnfEliminateIff
    \/ CnfEliminateImp
    \/ CnfMoveNegation
    \/ CnfDistribute

SpecCnf == CnfInit /\ [][CnfNext]_vars

-----------------------------------------------------------------------------
(* ResolutionChecker.resolution as a state machine: one action per pass of *)
(* its while loop                                                          *)

MaxClauses == 3

ResLiterals == {<<"P">>, <<NOT, "P">>, <<"Q">>, <<NOT, "Q">>}

\* the clause lists handed to resolution, as the set the first statement
\* makes of them
ResInputs == {S \in SUBSET (SUBSET ResLiterals) : Cardinality(S) <= MaxClauses}

ResInit ==
    /\ resInput \in ResInputs
    /\ newClauses = resInput
    /\ resStatus = "running"
    /\ bbIdle
    /\ cnfIdle
    /\ parseIdle

\* the end of a pass without the issubset test that ends the loop
ResPassEnd_no_fixpoint_test(new_resolvents_set) ==
    IF {} \in new_resolvents_set
    THEN resStatus' = "True" /\ newClauses' = newClauses
    ELSE resStatus' = "running" /\ newClauses' = newClauses \cup new_resolvents_set

\* the end of a pass that never goes on to another pass
ResPassEnd_single_pass(new_resolvents_set) ==
    IF {} \in new_resolvents_set
    THEN resStatus' = "True" /\ newClauses' = newClauses
    ELSE resStatus' = "False" /\ newClauses' = newClauses

\* the end of a pass, new_resolvents_set being what the pass produced
ResPassEnd(new_resolvents_set) ==
    IF {} \in new_resolvents_set
    THEN resStatus' = "True" /\ newClauses' = newClauses
    ELSE IF new_resolvents_set \subseteq newClauses
    THEN resStatus' = "False" /\ newClauses' = newClauses
    ELSE resStatus' = "running" /\ newClauses' = newClauses \cup new_resolvents_set

ResolutionPass ==
    /\ resStatus = "running"
    /\ ResPassEnd(RoundResolvents(ListOf(newClauses)))
    /\ UNCHANGED <<resInput, bbVars, cnfVars, parseVars>>

ResNext == ResolutionPass

SpecRes == ResInit /\ [][ResNext]_vars

\* resolution is a sequential loop: while a pass can be taken, one is
FairSpecRes == ResInit /\ [][ResNext]_vars /\ WF_vars(ResolutionPass)

-----------------------------------------------------------------------------
(* Parser(formula_string).parse() as a state machine: the call is one step *)

MaxTokens == 3

MaxNots == 2

\* the tokens callers write: names, a name that starts with a digit, a name
\* with a character that is not alphanumeric, and symbols
NameTokens == {<<"P">>, <<"P", Underscore, "1">>, <<"1", "P">>, <<"P", "$">>}
SymbolTokens == {<<NOT>>, <<AND>>, <<OR>>, <<LP>>, <<RP>>}
TokenPool == NameTokens \cup SymbolTokens

\* the token lists of each length up to MaxTokens
TokenLists == UNION {[1..n -> TokenPool] : n \in 0..MaxTokens}

\* " ".join(tokens)
RECURSIVE Join(_)
Join(tokens) ==
    IF tokens = <<>> THEN <<>>
    ELSE IF Len(tokens) = 1 THEN tokens[1]
    ELSE tokens[1] \o <<SP>> \o Join(Tail(tokens))

\* an operand without parentheses: an atom under nots negation signs
Operands == [nots : 0..MaxNots, atom : CnfAtoms]

OperandText(operand) == [k \in 1..operand.nots |-> NOT] \o operand.atom

\* operands joined by binary symbols, no parentheses: ops[k] stands between
\* operands[k] and operands[k + 1]
RECURSIVE FlatText(_, _)
FlatText(operands, ops) ==
    IF Len(operands) = 1 THEN OperandText(operands[1])
    ELSE OperandText(operands[1]) \o <<SP, ops[1], SP>>
             \o FlatText(Tail(operands), Tail(ops))

\* Parser is constructed on text, which the caller wrote from source
ParseStart(source, text) ==
    /\ parseSource = source
    /\ parseInput = text
    /\ parseStatus = "start"
    /\ parseAst = None
    /\ bbIdle
    /\ cnfIdle
    /\ resIdle

TextSource(tokens) == [kind |-> "text", tokens |-> tokens]
FlatSource(operands, ops) == [kind |-> "flat", operands |-> operands, ops |-> ops]
TreeSource(tree) == [kind |-> "tree", tree |-> tree]

\* the strings handed to the parser: token lists, expressions without
\* parentheses of up to three operands, and printed trees
ParseInit ==
    \/ \E tokens \in TokenLists : ParseStart(TextSource(tokens), Join(tokens))
    \/ \E a \in Operands :
          ParseStart(FlatSource(<<a>>, <<>>), FlatText(<<a>>, <<>>))
    \/ \E a \in Operands, b \in Operands, o1 \in BinarySymbols :
          ParseStart(FlatSource(<<a, b>>, <<o1>>), FlatText(<<a, b>>, <<o1>>))
    \/ \E a \in Operands, b \in Operands, c \in Operands,
          o1 \in BinarySymbols, o2 \in BinarySymbols :
          ParseStart(FlatSource(<<a, b, c>>, <<o1, o2>>),
                     FlatText(<<a, b, c>>, <<o1, o2>>))
    \/ \E f \in DeepFormulas : ParseStart(TreeSource(f), Repr(f))
    \/ \E f \in SmallerFormulas[1] : ParseStart(TreeSource(f), Repr(f))
    \/ \E k \in 1..MaxOps : \E f \in SmallerFormulas[k] :
          ParseStart(TreeSource(Not(f)), Repr(Not(f)))
    \/ \E k \in 1..MaxOps, i \in 1..MaxOps :
          /\ i <= k
          /\ \E type \in BinaryTypes, l \in SmallerFormulas[i],
                r \in SmallerFormulas[k + 1 - i] :
                ParseStart(TreeSource(MkBinary(type, l, r)),
                           Repr(MkBinary(type, l, r)))

\* the outcome of parse
ParseDone(parsed) ==
    /\ parseStatus' = (IF parsed.ok THEN "returned" ELSE "ValueError")
    /\ parseAst' = parsed.ast

\* parser = Parser(formula_string); parser.parse()
ParserParse ==
    /\ parseStatus = "start"
    /\ ParseDone(Parse(parseInput))
    /\ UNCHANGED <<parseSource, parseInput, bbVars, cnfVars, resVars>>

ParseNext == ParserParse

SpecParse == ParseInit /\ [][ParseNext]_vars

-----------------------------------------------------------------------------
(* Properties of the belief base, checked under Spec *)

\* the call recorded in last is a contraction that returned
ContractionReturned == last.op = "contraction" /\ last.ret \in {"True", "False"}

\* C1 (Success): after contraction(phi) returns for a phi that is not a
\* tautology, entails(phi) is false.
C1_Success ==
    (ContractionReturned /\ ~IsTautologyText(last.formula))
        => entails(formulas, last.formula) # "True"

\* C2 (Entailment correctness): entails(query) returns true if and only if
\* every truth assignment that satisfies all stored formulas satisfies the
\* query.
C2_EntailmentCorrect ==
    (last.op = "entails" /\ last.ret \in {"True", "False"})
        => ((last.ret = "True") <=> SemEntails(last.before, last.formula))

\* the sub-lists of fs with size entries
SubsetsOfSize(fs, size) ==
    {Pick(fs, positions) : positions \in SeqToSet(Combinations(1, Len(fs), size))}

\* subset does not entail the formula, and does with any further entry of fs
MaximalNonEntailing(fs, subset, formula) ==
    /\ entails(subset, formula) = "False"
    /\ \A i \in 1..Len(fs) :
          InSubset(fs[i], subset) \/ entails(Append(subset, fs[i]), formula) # "False"

MaximalSubsets(fs, size, formula) ==
    {subset \in SubsetsOfSize(fs, size) : MaximalNonEntailing(fs, subset, formula)}

\* size is the largest at which fs has a maximal non-entailing subset
LargestSize(fs, size, formula) ==
    /\ MaximalSubsets(fs, size, formula) # {}
    /\ \A bigger \in (size + 1)..Len(fs) : MaximalSubsets(fs, bigger, formula) = {}

\* kept has the greatest priority sum among the maximal non-entailing
\* subsets of the largest size
GreatestPrioritySum(fs, formula, kept) ==
    \A size \in 0..Len(fs) :
        LargestSize(fs, size, formula)
            => \A subset \in MaximalSubsets(fs, size, formula) :
                  PrioritySum(subset) <= PrioritySum(kept)

\* C4 (Priority selection): when contraction(phi) succeeds, the retained
\* subset has the greatest sum of priorities among all maximal non-entailing
\* subsets of the largest size at which one exists, whatever the insertion
\* order.
C4_PrioritySelection ==
    (last.op = "contraction" /\ last.ret = "True")
        => GreatestPrioritySum(last.before, last.formula, formulas)

\* C5 (Inclusion): the set of formula texts stored after contraction(phi) is
\* a subset of the set stored before the call.
C5_Inclusion ==
    last.op = "contraction" => TextSet(formulas) \subseteq TextSet(last.before)

\* a contraction removed an entry and kept two
C5_Witness ==
    /\ last.op = "contraction"
    /\ last.ret = "True"
    /\ Len(formulas) = 2
    /\ Len(last.before) = 3

\* C6 (Vacuity): if the belief base does not entail phi when contraction(phi)
\* is called, the stored entries (texts, priorities and order) are identical
\* after the call.
C6_Vacuity ==
    (last.op = "contraction" /\ entails(last.before, last.formula) # "True")
        => formulas = last.before

\* a contraction by a formula that two stored entries do not entail
C6_Witness ==
    /\ last.op = "contraction"
    /\ last.ret = "False"
    /\ Len(last.before) >= 2
    /\ entails(last.before, last.formula) = "False"

\* C7 (Consistency): if entails("False") is false before contraction(phi), it
\* is false after it.
C7_Consistency ==
    (last.op = "contraction" /\ entails(last.before, tFalse) = "False")
        => entails(formulas, tFalse) = "False"

\* a contraction removed an entry of a consistent base
C7_Witness ==
    /\ last.op = "contraction"
    /\ last.ret = "True"
    /\ formulas # last.before
    /\ entails(last.before, tFalse) = "False"

\* contracting fs by psi leaves the formulas in texts
SameOutcome(fs, psi, texts) == TextSet(contraction(fs, psi).formulas) = texts

\* C8 (Extensionality): contracting equal bases by phi and by a logically
\* equivalent, syntactically different psi leaves both with the same set of
\* formulas.
C8_Extensionality ==
    ContractionReturned
        => \A psi \in QueryTexts :
              (psi # last.formula /\ Equivalent(last.formula, psi))
                  => SameOutcome(last.before, psi, TextSet(formulas))

\* C11 (Tautology contraction failure): for every tautology phi,
\* contraction(phi) returns false and leaves the stored entries unchanged.
C11_TautologyContraction ==
    (ContractionReturned /\ IsTautologyText(last.formula))
        => (last.ret = "False" /\ formulas = last.before)

\* the call recorded in last is an expansion that returned true
ExpansionSucceeded == last.op = "expansion" /\ last.ret = "True"

\* C12 (Expansion entails the new formula): after expansion(f, p) returns
\* true for a formula f that parses, entails(f) is true.
C12_ExpansionEntails ==
    (ExpansionSucceeded /\ Parses(last.formula) /\ AllParse(last.before))
        => entails(formulas, last.formula) = "True"

\* every query the entries of before entail, the entries of after entail
EntailedStay(before, after) ==
    \A q \in QueryTexts :
        entails(before, q) = "True" => entails(after, q) = "True"

\* C13 (Expansion is monotonic): every query q for which entails(q) is true
\* before a successful expansion(f, p) still has entails(q) true after it.
C13_ExpansionMonotonic ==
    ExpansionSucceeded => EntailedStay(last.before, formulas)

\* C14 (Expansion result): expansion(f, p) returns false and leaves the
\* entries unchanged when an entry with exactly the text f is stored;
\* otherwise it appends (f, p) as the last entry, leaves every earlier entry
\* unchanged, and returns true.
C14_ExpansionResult ==
    last.op = "expansion"
        => IF \E i \in 1..Len(last.before) : last.before[i][1] = last.formula
           THEN last.ret = "False" /\ formulas = last.before
           ELSE /\ last.ret = "True"
                /\ Len(formulas) = Len(last.before) + 1
                /\ formulas[Len(formulas)] = <<last.formula, last.priority>>
                /\ SubSeq(formulas, 1, Len(last.before)) = last.before

\* an expansion by a stored text with another priority was refused
C14_Witness ==
    /\ last.op = "expansion"
    /\ last.ret = "False"
    /\ \E i \in 1..Len(last.before) :
          /\ last.before[i][1] = last.formula
          /\ last.before[i][2] # last.priority

\* C15 (Uniqueness): after any sequence of add_formula, expansion,
\* remove_formula, empty and contraction calls from an empty belief base, no
\* two stored entries have the same formula text.
C15_Uniqueness ==
    \A i \in 1..Len(formulas), j \in 1..Len(formulas) :
        formulas[i][1] = formulas[j][1] => i = j

\* three entries are stored, the last by a successful expansion
C15_Witness ==
    /\ ExpansionSucceeded
    /\ Len(formulas) = 3

\* C16 (Vacuous contraction reports failure): when the belief base does not
\* entail phi, contraction(phi) returns false.
C16_VacuousFailure ==
    (last.op = "contraction" /\ entails(last.before, last.formula) = "False")
        => last.ret = "False"

\* a one-entry base was contracted by a formula it does not entail
C16_Witness ==
    /\ last.op = "contraction"
    /\ Len(last.before) = 1
    /\ entails(last.before, last.formula) = "False"
    /\ last.ret = "False"

\* C17 (Entailment queries never mutate state): the stored entries after
\* entails(query) returns or raises are identical to those before the call.
C17_EntailsNoMutation == last.op = "entails" => formulas = last.before

\* entails raised on a base of two entries
C17_Witness ==
    /\ last.op = "entails"
    /\ last.ret = "ValueError"
    /\ Len(formulas) = 2

\* the sub-lists of fs: entries of fs, whole, in the order of fs
SubLists(fs) == UNION {SubsetsOfSize(fs, size) : size \in 0..Len(fs)}

\* C18 (Atomic mutation): contraction either replaces the stored entries by
\* the complete selected subset or leaves them exactly as before; when it
\* aborts with an error the stored entries equal those before the call.
C18_AtomicContraction ==
    last.op = "contraction"
        => IF last.ret = "True"
           THEN formulas \in SubLists(last.before)
           ELSE formulas = last.before

\* contraction aborted with an error on a base of two entries
C18_Witness ==
    /\ last.op = "contraction"
    /\ last.ret = "ValueError"
    /\ Len(last.before) = 2

\* C19 (Malformed input is rejected by expansion): expansion(text, p) with
\* text the parser rejects surfaces a parse error and stores nothing.
C19_MalformedRejected ==
    (last.op = "expansion" /\ ~Parses(last.formula))
        => (last.ret = "ValueError" /\ formulas = last.before)

-----------------------------------------------------------------------------
(* Properties of to_cnf, checked under SpecCnf *)

CnfErrors == {"ValueError", "TypeError", "RecursionError"}

\* f and g have the same truth value under every truth assignment
SameTruthValues(f, g) ==
    \A v \in SUBSET (AtomsOf(f) \cup AtomsOf(g)) : Eval(f, v) <=> Eval(g, v)

\* what to_cnf has done so far is right for an input the parser read as parsed
CnfSoundFor(parsed) ==
    parsed.ok
        => /\ cnfStage \notin CnfErrors
           /\ cnfStage = "done" => SameTruthValues(parsed.ast, cnfAst)

\* C9 (CNF soundness): for every formula F that parses, F and to_cnf(F) have
\* the same truth value under every truth assignment, and to_cnf returns a
\* formula rather than an error.
C9_CnfSoundness ==
    cnfStage \in CnfErrors \cup {"done"} => CnfSoundFor(Parse(cnfInput))

\* to_cnf returned a tree that a pass of the distribution loop had changed
C9_Witness ==
    /\ cnfStage = "done"
    /\ loopCount >= 2
    /\ IMP \in SeqToSet(cnfInput)

\* the nodes of f are literals, negated literals, disjunctions and, unless
\* below_or, conjunctions
RECURSIVE CnfShape(_, _)
CnfShape(f, below_or) ==
    CASE f.t = "Literal" -> TRUE
      [] f.t = "Not" -> f.operand.t = "Literal"
      [] f.t = "Or" -> CnfShape(f.left, TRUE) /\ CnfShape(f.right, TRUE)
      [] f.t = "And" ->
            ~below_or /\ CnfShape(f.left, FALSE) /\ CnfShape(f.right, FALSE)
      [] OTHER -> FALSE

\* C10 (CNF shape): the tree returned by to_cnf contains no Implies node, no
\* Iff node, no Not node whose operand is not a Literal, and no And node
\* below an Or node.
C10_CnfShape == cnfStage = "done" => CnfShape(cnfAst, FALSE)

\* to_cnf returned a conjunction of disjunctions for a negated input
C10_Witness ==
    /\ cnfStage = "done"
    /\ StartsWith(cnfInput, NOT)
    /\ cnfAst.t = "And"
    /\ cnfAst.left.t = "Or"

\* C27: the distribution loop of to_cnf never raises RecursionError; the
\* tree after one pass is unchanged by another pass, so the loop takes at
\* most two passes and ends on two successive trees that are equal.
C27_DistributionFixpoint ==
    /\ cnfStage # "RecursionError"
    /\ loopCount <= 2
    /\ (cnfStage \in {"loop", "done"} /\ loopCount >= 1)
           => distribute_or_over_and_ast(cnfAst) = cnfAst
    /\ cnfStage = "done" => (cnfPrev = cnfAst /\ loopCount >= 1)

\* the loop ended after a pass that changed the tree and one that did not
C27_Witness ==
    /\ cnfStage = "done"
    /\ loopCount = 2
    /\ cnfPrev = cnfAst
    /\ move_negation_inwards_ast(
           eliminate_imp_ast(eliminate_iff_ast(Parse(cnfInput).ast))) # cnfAst

-----------------------------------------------------------------------------
(* Properties of resolution, checked under SpecRes *)

LiteralAtom(literal) == IF StartsWith(literal, NOT) THEN Tail(literal) ELSE literal

\* the truth value of a literal when exactly the atoms in v are true
LiteralHolds(literal, v) ==
    IF StartsWith(literal, NOT) THEN Tail(literal) \notin v ELSE literal \in v

\* some truth assignment satisfies every clause
Satisfiable(clauses) ==
    \E v \in SUBSET {LiteralAtom(literal) : literal \in UNION clauses} :
        \A clause \in clauses : \E literal \in clause : LiteralHolds(literal, v)

\* C3 (Resolution soundness and completeness): resolution(clauses) returns
\* true if and only if no truth assignment satisfies all the clauses.
C3_ResolutionCorrect ==
    resStatus \in {"True", "False"}
        => ((resStatus = "True") <=> ~Satisfiable(resInput))

\* a round that does not return: the known-clause set strictly grows, loses
\* no clause, and holds only clauses over the literals of the input
RoundGrows ==
    (resStatus = "running" /\ resStatus' = "running")
        => /\ newClauses \subseteq newClauses'
           /\ newClauses' # newClauses
           /\ newClauses' \subseteq SUBSET (UNION resInput)

\* C20 (Resolution terminates): resolution eventually returns; in each round
\* that does not return, the known-clause set strictly grows, never loses a
\* clause, and stays within the clauses over the literals of the input.
C20_ResolutionTerminates ==
    /\ <>(resStatus \in {"True", "False"})
    /\ [][RoundGrows]_vars

\* a round has added a clause and resolution has not returned
C20_Witness ==
    /\ resStatus = "running"
    /\ newClauses # resInput
    /\ resInput \subseteq newClauses

\* the literal of the same atom and the opposite polarity
Opposite(literal) ==
    IF StartsWith(literal, NOT) THEN LiteralAtom(literal)
    ELSE <<NOT>> \o LiteralAtom(literal)

\* the clause holds some atom in both polarities
BothPolarities(clause) ==
    \E literal \in clause :
        /\ LiteralAtom(literal) \in clause
        /\ (<<NOT>> \o LiteralAtom(literal)) \in clause

\* the union of A and B without L and its opposite
Candidate(A, B, L) == (A \cup B) \ {L, Opposite(L)}

\* the literals of A whose opposite is in B
Clashing(A, B) == {L \in A : Opposite(L) \in B}

Resolvents(A, B) ==
    {Candidate(A, B, L) : L \in {K \in Clashing(A, B) :
                                    ~BothPolarities(Candidate(A, B, K))}}

\* C25: for the known clauses A and B, resolve(A, B) is the set of the unions
\* of A and B without L and its opposite, L a literal of A whose opposite is
\* in B, that hold no atom in both polarities; no clause added to the known
\* set holds an atom in both polarities.
C25_ResolveRule ==
    /\ \A A \in newClauses : \A B \in newClauses : resolve(A, B) = Resolvents(A, B)
    /\ \A clause \in newClauses \ resInput : ~BothPolarities(clause)

\* resolution returned after a pass in which a pair of clauses had an
\* excluded candidate, and after a pass that added a clause
C25_Witness ==
    /\ resStatus \in {"True", "False"}
    /\ newClauses # resInput
    /\ \E A \in newClauses : \E B \in newClauses : \E L \in Clashing(A, B) :
          /\ BothPolarities(Candidate(A, B, L))
          /\ Candidate(A, B, L) \notin resolve(A, B)
          /\ Candidate(A, B, L) \notin newClauses

\* no clause is empty and none holds an atom in both polarities
WellFormedClauses(clauses) ==
    \A clause \in clauses : clause # {} /\ ~BothPolarities(clause)

\* C28: on clauses none of which is empty or holds an atom in both
\* polarities, resolution returns true if and only if no truth assignment
\* satisfies all of them.
C28_ResolutionWellFormed ==
    (resStatus \in {"True", "False"} /\ WellFormedClauses(resInput))
        => ((resStatus = "True") <=> ~Satisfiable(resInput))

\* resolution returned true on well-formed clauses after more than one pass
C28_Witness ==
    /\ resStatus = "True"
    /\ WellFormedClauses(resInput)
    /\ resInput # {}
    /\ newClauses # resInput
    /\ ~Satisfiable(resInput)

-----------------------------------------------------------------------------
(* Properties of the parser, checked under SpecParse *)

ParseFinished == parseStatus \in {"returned", "ValueError"}

SymbolTokenSet == {<<c>> : c \in ParserSymbols}
BinaryTokenSet == {<<c>> : c \in BinarySymbols}

IsNameToken(token) == token \notin SymbolTokenSet

\* the grammar as a scan over the tokens: where an operand is due a name
\* ends it, a negation sign or an opening parenthesis keeps it due; after an
\* operand a binary symbol makes one due again and a closing parenthesis
\* needs an open one
RECURSIVE Scan(_, _, _, _)
Scan(tokens, i, operandDue, depth) ==
    IF i > Len(tokens) THEN ~operandDue /\ depth = 0
    ELSE IF operandDue
    THEN IF tokens[i] = <<NOT>> THEN Scan(tokens, i + 1, TRUE, depth)
         ELSE IF tokens[i] = <<LP>> THEN Scan(tokens, i + 1, TRUE, depth + 1)
         ELSE IF IsNameToken(tokens[i]) /\ ValidLiteralName(tokens[i])
         THEN Scan(tokens, i + 1, FALSE, depth)
         ELSE FALSE
    ELSE IF tokens[i] \in BinaryTokenSet THEN Scan(tokens, i + 1, TRUE, depth)
         ELSE IF tokens[i] = <<RP>> /\ depth > 0
         THEN Scan(tokens, i + 1, FALSE, depth - 1)
         ELSE FALSE

WellFormed(tokens) == Scan(tokens, 1, TRUE, 0)

CountTokens(tokens, wanted) ==
    Cardinality({i \in 1..Len(tokens) : tokens[i] \in wanted})

CountNames(tokens) ==
    Cardinality({i \in 1..Len(tokens) : IsNameToken(tokens[i])})

RECURSIVE CountNodes(_, _)
CountNodes(f, types) ==
    (IF f.t \in types THEN 1 ELSE 0)
    + (CASE f.t = "Literal" -> 0
         [] f.t = "Not" -> CountNodes(f.operand, types)
         [] OTHER -> CountNodes(f.left, types) + CountNodes(f.right, types))

\* every token is in the tree: names are the literals, negation signs the
\* Not nodes, binary symbols the binary nodes, parentheses come in pairs
AllConsumed(tokens, tree) ==
    /\ CountNames(tokens) = CountNodes(tree, {"Literal"})
    /\ CountTokens(tokens, {<<NOT>>}) = CountNodes(tree, {"Not"})
    /\ CountTokens(tokens, BinaryTokenSet)
           = CountNodes(tree, {"And", "Or", "Implies", "Iff"})
    /\ CountTokens(tokens, {<<LP>>}) = CountTokens(tokens, {<<RP>>})

\* C21: parse raises ValueError, and gives no formula, on exactly the token
\* lists that are not a formula (no token, an invalid name, a symbol or a
\* closing parenthesis where an operand is due, parentheses that do not
\* match, tokens after a complete formula); where it returns, every token
\* is in the returned tree.
C21_ParserErrors ==
    (ParseFinished /\ parseSource.kind = "text") =>
        /\ (parseStatus = "ValueError") = ~WellFormed(parseSource.tokens)
        /\ parseStatus = "ValueError" => parseAst = None
        /\ parseSource.tokens = <<>> => parseStatus = "ValueError"
        /\ (\E i \in 1..Len(parseSource.tokens) :
               /\ IsNameToken(parseSource.tokens[i])
               /\ ~ValidLiteralName(parseSource.tokens[i]))
           => parseStatus = "ValueError"
        /\ CountTokens(parseSource.tokens, {<<LP>>})
               # CountTokens(parseSource.tokens, {<<RP>>})
           => parseStatus = "ValueError"
        /\ parseStatus = "returned" => AllConsumed(parseSource.tokens, parseAst)

\* a complete formula followed by one more token was rejected
C21_Witness ==
    /\ parseSource = TextSource(<<(<<"P">>), (<<RP>>)>>)
    /\ parseStatus = "ValueError"
    /\ parseAst = None

\* how loosely a binary symbol binds: the loosest is 1
Looseness(symbol) ==
    CASE symbol = IFF -> 1 [] symbol = IMP -> 2 [] symbol = OR -> 3 [] symbol = AND -> 4

TypeOfSymbol(symbol) ==
    CASE symbol = IFF -> "Iff" [] symbol = IMP -> "Implies"
      [] symbol = OR -> "Or" [] symbol = AND -> "And"

\* an atom under nots nested Not nodes
RECURSIVE Negated(_, _)
Negated(nots, atom) ==
    IF nots = 0 THEN Literal(atom) ELSE Not(Negated(nots - 1, atom))

\* the place of the last of the loosest symbols of ops
SplitPlace(ops) ==
    CHOOSE k \in 1..Len(ops) :
        /\ \A j \in 1..Len(ops) : Looseness(ops[k]) <= Looseness(ops[j])
        /\ \A j \in (k + 1)..Len(ops) : Looseness(ops[k]) < Looseness(ops[j])

\* the reading of an expression without parentheses: negation signs belong
\* to their atom, and the expression is split at the last of its loosest
\* symbols, so that tighter symbols group first and equal ones to the left
RECURSIVE Grouped(_, _)
GroupedAt(operands, ops, k) ==
    MkBinary(TypeOfSymbol(ops[k]),
             Grouped(SubSeq(operands, 1, k), SubSeq(ops, 1, k - 1)),
             Grouped(SubSeq(operands, k + 1, Len(operands)),
                     SubSeq(ops, k + 1, Len(ops))))

Grouped(operands, ops) ==
    IF Len(operands) = 1 THEN Negated(operands[1].nots, operands[1].atom)
    ELSE GroupedAt(operands, ops, SplitPlace(ops))

\* C22: an expression without parentheses parses, and its tree groups the
\* negation signs to their atom as nested Not nodes, "and" before "or"
\* before "implies" before "iff", and a chain of one symbol to the left.
C22_Precedence ==
    (ParseFinished /\ parseSource.kind = "flat") =>
        /\ parseStatus = "returned"
        /\ parseAst = Grouped(parseSource.operands, parseSource.ops)

\* a chain a > b > c whose a stands under MaxNots negation signs was read as
\* Implies(Implies(a, b), c), a being that many nested Not nodes
C22_Witness ==
    /\ parseStatus = "returned"
    /\ parseSource.kind = "flat"
    /\ parseSource.ops = <<IMP, IMP>>
    /\ parseSource.operands[1].nots = MaxNots
    /\ parseAst.t = "Implies"
    /\ parseAst.left.t = "Implies"
    /\ parseAst.left.left = Negated(MaxNots, parseSource.operands[1].atom)

\* C23: parsing the printed form of a tree gives the tree back.
C23_RoundTrip ==
    (ParseFinished /\ parseSource.kind = "tree") =>
        /\ parseInput = Repr(parseSource.tree)
        /\ parseStatus = "returned"
        /\ parseAst = parseSource.tree

\* a negated binary node with a binary operand came back from its printed form
C23_Witness ==
    /\ parseStatus = "returned"
    /\ parseSource.kind = "tree"
    /\ parseSource.tree.t = "Not"
    /\ IsBinaryOp(parseSource.tree.operand)
    /\ IsBinaryOp(parseSource.tree.operand.right)
    /\ parseAst = parseSource.tree

-----------------------------------------------------------------------------
(* Further properties of the belief base, checked under Spec *)

\* the negation of a whole formula: a leading Not stripped, or Not around it
NegatedTree(tree) == IF tree.t = "Not" THEN tree.operand ELSE Not(tree)

\* parse, negate the tree, convert to CNF, extract the clauses
NegatedParsed(parsed) ==
    IF ~parsed.ok THEN parsed ELSE ParseOk(NegatedTree(parsed.ast), parsed.pos)

PipelineClauses(formula) == ClausesOfCnf(CnfOfParsed(NegatedParsed(Parse(formula))))

SameClauses(pipeline, added) ==
    /\ pipeline.err = ""
    /\ SeqToSet(pipeline.clauses) = SeqToSet(added)

\* C24: the clauses entails adds for the negated query are the clauses of
\* the CNF of the negation of the whole parsed query.
C24_NegatedQueryPipeline ==
    last.op = "entails" =>
        SameClauses(PipelineClauses(last.formula),
                    cnf_to_clauses(negate_formula(last.formula)))

\* the entries of before that are not retained
Removed(before, retained) ==
    {before[i] : i \in {k \in 1..Len(before) : ~InSubset(before[k], retained)}}

\* C26: when contraction(phi) returns true, the retained entries do not
\* entail phi, and with any single removed entry put back they do.
C26_Maximality ==
    (last.op = "contraction" /\ last.ret = "True") =>
        /\ entails(formulas, last.formula) = "False"
        /\ \A entry \in Removed(last.before, formulas) :
              entails(Append(formulas, entry), last.formula) = "True"

\* a contraction kept one entry and removed two
C26_Witness ==
    /\ last.op = "contraction"
    /\ last.ret = "True"
    /\ Len(formulas) = 1
    /\ Cardinality(Removed(last.before, formulas)) = 2

\* the query is written as a name, or as a negation sign before a name
LiteralText(text) ==
    \/ ValidLiteralName(text)
    \/ StartsWith(text, NOT) /\ Len(text) > 1 /\ ValidLiteralName(Tail(text))

\* no clause extracted from the stored formulas holds an atom in both
\* polarities
NoTautologyStored(cnf_clauses) ==
    /\ cnf_clauses.err = ""
    /\ \A k \in 1..Len(cnf_clauses.clauses) : ~BothPolarities(cnf_clauses.clauses[k])

\* C29: for a query that is a literal or a negated literal, on stored
\* formulas whose clauses hold no atom in both polarities, entails(query)
\* is true if and only if every truth assignment satisfying all stored
\* formulas satisfies the query.
C29_LiteralEntailment ==
    (/\ last.op = "entails"
     /\ LiteralText(last.formula)
     /\ AllParse(last.before)
     /\ NoTautologyStored(BaseClauses(last.before))) =>
        /\ last.ret \in {"True", "False"}
        /\ (last.ret = "True") <=> SemEntails(last.before, last.formula)

\* a literal was found entailed by a base of two entries, none of which is
\* the query
C29_Witness ==
    /\ last.op = "entails"
    /\ last.formula = tQ
    /\ last.ret = "True"
    /\ Len(last.before) = 2
    /\ ~contains(last.before, tQ)
    /\ NoTautologyStored(BaseClauses(last.before))

\* the entries of fs at the positions in S, in the order of fs, from i on
RECURSIVE EntriesFrom(_, _, _)
EntriesFrom(fs, S, i) ==
    IF i > Len(fs) THEN <<>>
    ELSE IF i \in S THEN <<fs[i]>> \o EntriesFrom(fs, S, i + 1)
    ELSE EntriesFrom(fs, S, i + 1)

EntriesAt(fs, S) == EntriesFrom(fs, S, 1)

\* the positions in before of the retained entries
PositionsOf(before, retained) ==
    {i \in 1..Len(before) : InSubset(before[i], retained)}

\* combinations come in the lexicographic order of their increasing position
\* tuples: of two sets of one size, the one holding the least position that
\* is not in both comes first
ComesBefore(S, T) ==
    \E i \in S \ T : \A j \in T \ S : i < j

NonEntailing(fs, S, formula) == entails(EntriesAt(fs, S), formula) = "False"

\* the retained entries are the first non-entailing subset of the largest
\* size that has one
FirstOfLargest(before, formula, retained, kept) ==
    /\ retained = EntriesAt(before, kept)
    /\ NonEntailing(before, kept, formula)
    /\ \A S \in SUBSET (1..Len(before)) :
          /\ Cardinality(S) > Cardinality(kept) => ~NonEntailing(before, S, formula)
          /\ (Cardinality(S) = Cardinality(kept) /\ ComesBefore(S, kept))
                 => ~NonEntailing(before, S, formula)

====
